---- MODULE Spec2Model ----
(***************************************************************************)
(* State-machine model of the Flask blog of src/main.py: three tables      *)
(* (user, blog_posts, comments), the flask-login session of each browser,  *)
(* and one action per route handler.  Every handler is one atomic step     *)
(* (Spec); SpecRace splits register() at its commit so that concurrent     *)
(* registrations interleave between the lookup and the insert.             *)
(***************************************************************************)
EXTENDS Integers, FiniteSets, Sequences, TLC

\* ---- bounds -------------------------------------------------------------
MaxUsers == 2
MaxPosts == 2
MaxComments == 1

\* ---- input domains ------------------------------------------------------
\* browsers, each with its own session cookie
Clients == {1, 2}
Names == {"ann"}
Emails == {"a@x", "b@x"}
\* passwords chosen at registration, and passwords tried at login
RegPasswords == {"pw1"}
Passwords == {"pw1", "pw2"}
Salts == {"s1"}
Dates == {"April 02, 2024"}
CommentTexts == {"hi"}
PostIds == 1..MaxPosts
\* submitted CreatePostForm contents
PostForms ==
    { [title |-> "T1", subtitle |-> "S1", body |-> "B1", img_url |-> "U1"],
      [title |-> "T2", subtitle |-> "S2", body |-> "B2", img_url |-> "U2"] }

\* ---- program constants and encodings ------------------------------------
\* the identifier admin_required compares current_user.id with
AdminId == 1
\* session value of a browser with no logged-in user (AnonymousUserMixin)
Anon == 0
\* NULL in the nullable foreign-key column comments.blogpost_id
Null == 0

VARIABLES
    users,      \* table user: set of rows [id, name, email, password]
    posts,      \* table blog_posts: set of rows
    comments,   \* table comments: set of rows
    session,    \* session[c]: user id stored in client c's session, or Anon
    resp,       \* the response produced by the last step
    pending     \* pending[c]: User object of an in-flight register() of c

vars == <<users, posts, comments, session, resp, pending>>
tables == <<users, posts, comments>>

\* no register() of the client is between its lookup and its commit
NoUser == [name |-> "", email |-> "", password |-> <<>>]

\* ---- responses ----------------------------------------------------------
\* line is the source line of the return / abort / raising statement taken
\* post_id is the post a redirect to show_post names; body is the set of
\* comments a rendered post.html lists
Response(c, status, target, post_id, flash, line, body) ==
    [client |-> c, status |-> status, target |-> target, post_id |-> post_id,
     flash |-> flash, line |-> line, body |-> body]
Redirect(c, target, flash, line) == Response(c, 302, target, Null, flash, line, {})
RedirectPost(c, post_id, line) == Response(c, 302, "show_post", post_id, "", line, {})
Render(c, template, flash, line, body) == Response(c, 200, template, Null, flash, line, body)
Abort(c, status, line) == Response(c, status, "", Null, "", line, {})

\* ---- storage helpers ----------------------------------------------------
Max(S) == CHOOSE m \in S : \A x \in S : x <= m

\* integer primary key assigned on insert
NextIdOne(table) == 1
NextId(table) == IF table = {} THEN 1 ELSE Max({r.id : r \in table}) + 1

\* db.select(User).where(User.email == e) ... .scalar(): empty set is None
UserByEmailNone(e) == {}
UserByEmail(e) == {u \in users : u.email = e}

\* unique=True on user.email, checked by the store at commit
EmailUniqueOff(e) == TRUE
EmailUnique(e) == \A u \in users : u.email # e

\* unique=True on blog_posts.title
TitleUnique(t) == \A p \in posts : p.title # t

\* db.get_or_404(BlogPost, post_id): empty set is the 404 case
PostByIdAny(post_id) == posts
PostById(post_id) == {p \in posts : p.id = post_id}

\* the relationship BlogPost.comments, as rendered by post.html
PostCommentsNone(post_id) == {}
PostComments(post_id) == {k \in comments : k.blogpost_id = post_id}

\* ---- password hashing ---------------------------------------------------
generate_password_hash(password, salt) ==
    [method |-> "pbkdf2:sha256", salt |-> salt, digest |-> <<salt, password>>]
check_password_hash_any(pwhash, password) == TRUE
check_password_hash(pwhash, password) ==
    pwhash.digest = <<pwhash.salt, password>>

\* ---- flask-login ----------------------------------------------------------
is_authenticated(c) == session[c] # Anon
\* load_user: users are never deleted, so get_or_404 finds the row
load_user(c) == CHOOSE u \in users : u.id = session[c]
login_user(c, user) == session' = [session EXCEPT ![c] = user.id]
logout_user(c) == session' = [session EXCEPT ![c] = Anon]

Init ==
    /\ users = {}
    /\ posts = {}
    /\ comments = {}
    /\ session = [c \in Clients |-> Anon]
    /\ resp = Abort(0, 0, 0)
    /\ pending = [c \in Clients |-> NoUser]

\* ---- admin_required -----------------------------------------------------
\* "error": current_user.id raises on the anonymous user object, which has
\* no attribute id; "deny": abort(403); "allow": the route function runs
admin_required(c) ==
    IF session[c] = Anon THEN "error"
    ELSE IF session[c] # AdminId \/ ~is_authenticated(c) THEN "deny"
    ELSE "allow"

\* the response of a request the decorator stops
Denied(c) ==
    /\ resp' = IF admin_required(c) = "error" THEN Abort(c, 500, 94) ELSE Abort(c, 403, 95)
    /\ UNCHANGED <<posts, comments>>

\* ---- register -----------------------------------------------------------
\* lines 128-131: add, commit, login_user, redirect
RegisterInsert(c, new_user) ==
    IF ~EmailUnique(new_user.email)
    THEN /\ resp' = Abort(c, 500, 129)
         /\ UNCHANGED <<users, session>>
    ELSE /\ Cardinality(users) < MaxUsers
         /\ LET row == [id |-> NextId(users), name |-> new_user.name,
                        email |-> new_user.email, password |-> new_user.password]
            IN /\ users' = users \cup {row}
               /\ login_user(c, row)
         /\ resp' = Redirect(c, "get_all_posts", "", 131)

Register(c, name, email, password, valid) ==
    /\ UNCHANGED <<posts, comments, pending>>
    /\ IF is_authenticated(c)
       THEN /\ resp' = Redirect(c, "get_all_posts", "", 106)
            /\ UNCHANGED <<users, session>>
       ELSE IF ~valid
       THEN /\ resp' = Render(c, "register.html", "", 132, {})
            /\ UNCHANGED <<users, session>>
       ELSE IF UserByEmail(email) # {}
       THEN /\ resp' = Redirect(c, "login", "User already exists - please sign in.", 117)
            /\ UNCHANGED <<users, session>>
       ELSE \E salt \in Salts :
              RegisterInsert(c, [name |-> name, email |-> email,
                                 password |-> generate_password_hash(password, salt)])

\* ---- login --------------------------------------------------------------
Login(c, email, password, valid) ==
    /\ UNCHANGED <<users, posts, comments, pending>>
    /\ IF is_authenticated(c)
       THEN /\ resp' = Redirect(c, "get_all_posts", "", 139)
            /\ UNCHANGED session
       ELSE IF ~valid
       THEN /\ resp' = Render(c, "login.html", "", 156, {})
            /\ UNCHANGED session
       ELSE LET user_found == UserByEmail(email)
            IN IF /\ user_found # {}
                  /\ check_password_hash((CHOOSE u \in user_found : TRUE).password, password)
               THEN /\ login_user(c, CHOOSE u \in user_found : TRUE)
                    /\ resp' = Redirect(c, "get_all_posts", "", 152)
               ELSE /\ resp' = Render(c, "login.html", "... Can't log you in sorry babes.", 156, {})
                    /\ UNCHANGED session

\* ---- logout -------------------------------------------------------------
\* login_required with no login_view configured: unauthorized() aborts 401
Logout(c) ==
    /\ UNCHANGED <<users, posts, comments, pending>>
    /\ IF ~is_authenticated(c)
       THEN /\ resp' = Abort(c, 401, 160)
            /\ UNCHANGED session
       ELSE /\ logout_user(c)
            /\ resp' = Redirect(c, "get_all_posts", "", 163)

\* ---- show_post (GET renders, valid POST adds a comment) ---------------------
ShowPost(c, post_id, comment_text, valid) ==
    /\ UNCHANGED <<users, posts, session, pending>>
    /\ IF PostById(post_id) = {}
       THEN /\ resp' = Abort(c, 404, 175)
            /\ UNCHANGED comments
       ELSE LET requested_post == CHOOSE p \in PostById(post_id) : TRUE
            IN IF valid
               THEN IF is_authenticated(c)
                    THEN /\ Cardinality(comments) < MaxComments
                         /\ comments' = comments \cup
                               {[id |-> NextId(comments),
                                 comment_text |-> comment_text,
                                 author_id |-> load_user(c).id,
                                 blogpost_id |-> requested_post.id]}
                         /\ resp' = RedirectPost(c, requested_post.id, 193)
                    ELSE /\ resp' = Redirect(c, "login", "... Please login to post a comment.", 196)
                         /\ UNCHANGED comments
               ELSE /\ resp' = Render(c, "post.html", "", 198, PostComments(requested_post.id))
                    /\ UNCHANGED comments

\* ---- add_new_post ----------------------------------------------------------
AddNewPost(c, form, valid) ==
    /\ UNCHANGED <<users, session, pending>>
    /\ IF admin_required(c) # "allow"
       THEN Denied(c)
       ELSE IF ~valid
       THEN /\ resp' = Render(c, "make-post.html", "", 217, {})
            /\ UNCHANGED <<posts, comments>>
       ELSE IF ~TitleUnique(form.title)
       THEN /\ resp' = Abort(c, 500, 215)
            /\ UNCHANGED <<posts, comments>>
       ELSE /\ Cardinality(posts) < MaxPosts
            /\ \E today \in Dates :
                 posts' = posts \cup
                   {[id |-> NextId(posts), title |-> form.title,
                     subtitle |-> form.subtitle, body |-> form.body,
                     img_url |-> form.img_url, author_id |-> load_user(c).id,
                     date |-> today]}
            /\ resp' = Redirect(c, "get_all_posts", "", 216)
            /\ UNCHANGED comments

\* ---- edit_post -------------------------------------------------------------
\* On a valid submission post.author = current_user.name assigns a string to
\* the relationship attribute, which raises before the commit; the session
\* is discarded with the request, so the assignments of lines 233-235 are lost
EditPost(c, post_id, form, valid) ==
    /\ UNCHANGED <<users, session, pending>>
    /\ IF admin_required(c) # "allow"
       THEN Denied(c)
       ELSE /\ UNCHANGED <<posts, comments>>
            /\ IF PostById(post_id) = {}
               THEN resp' = Abort(c, 404, 224)
               ELSE IF valid
               THEN resp' = Abort(c, 500, 236)
               ELSE resp' = Render(c, "make-post.html", "", 240, {})

\* ---- delete_post -----------------------------------------------------------
\* BlogPost.comments has the default cascade: deleting the parent sets the
\* foreign key of its comments to NULL
Orphan(k, post) ==
    IF k.blogpost_id = post.id THEN [k EXCEPT !.blogpost_id = Null] ELSE k

DeletePost(c, post_id) ==
    /\ UNCHANGED <<users, session, pending>>
    /\ IF admin_required(c) # "allow"
       THEN Denied(c)
       ELSE IF PostById(post_id) = {}
       THEN /\ resp' = Abort(c, 404, 247)
            /\ UNCHANGED <<posts, comments>>
       ELSE LET post_to_delete == CHOOSE p \in PostById(post_id) : TRUE
            IN /\ posts' = posts \ {post_to_delete}
               /\ comments' = {Orphan(k, post_to_delete) : k \in comments}
               /\ resp' = Redirect(c, "get_all_posts", "", 250)

\* ---- register, split at the commit ------------------------------------------
\* lines 105-125: every return before the insert, or new_user built and the
\* request waiting to commit it
RegisterLookup(c, name, email, password, valid) ==
    /\ pending[c] = NoUser
    /\ UNCHANGED <<users, posts, comments, session>>
    /\ IF is_authenticated(c)
       THEN /\ resp' = Redirect(c, "get_all_posts", "", 106)
            /\ UNCHANGED pending
       ELSE IF ~valid
       THEN /\ resp' = Render(c, "register.html", "", 132, {})
            /\ UNCHANGED pending
       ELSE IF UserByEmail(email) # {}
       THEN /\ resp' = Redirect(c, "login", "User already exists - please sign in.", 117)
            /\ UNCHANGED pending
       ELSE /\ \E salt \in Salts :
                 pending' = [pending EXCEPT ![c] =
                               [name |-> name, email |-> email,
                                password |-> generate_password_hash(password, salt)]]
            /\ UNCHANGED resp

\* lines 128-131 of the waiting request
RegisterCommit(c) ==
    /\ pending[c] # NoUser
    /\ RegisterInsert(c, pending[c])
    /\ pending' = [pending EXCEPT ![c] = NoUser]
    /\ UNCHANGED <<posts, comments>>

\* ---- specifications --------------------------------------------------------
Next ==
    \/ \E c \in Clients, n \in Names, e \in Emails, p \in RegPasswords, v \in BOOLEAN :
         Register(c, n, e, p, v)
    \/ \E c \in Clients, e \in Emails, p \in Passwords, v \in BOOLEAN :
         Login(c, e, p, v)
    \/ \E c \in Clients : Logout(c)
    \/ \E c \in Clients, id \in PostIds, t \in CommentTexts, v \in BOOLEAN :
         ShowPost(c, id, t, v)
    \/ \E c \in Clients, f \in PostForms, v \in BOOLEAN : AddNewPost(c, f, v)
    \/ \E c \in Clients, id \in PostIds, f \in PostForms, v \in BOOLEAN :
         EditPost(c, id, f, v)
    \/ \E c \in Clients, id \in PostIds : DeletePost(c, id)

Spec == Init /\ [][Next]_vars

NextRace ==
    \/ \E c \in Clients, n \in Names, e \in Emails, p \in RegPasswords, v \in BOOLEAN :
         RegisterLookup(c, n, e, p, v)
    \/ \E c \in Clients : RegisterCommit(c)
    \/ \E c \in Clients, e \in Emails, p \in Passwords, v \in BOOLEAN :
         Login(c, e, p, v)
    \/ \E c \in Clients : Logout(c)

SpecRace == Init /\ [][NextRace]_vars

\* ---- properties -------------------------------------------------------------
EmailTaken(e) == \E u \in users : u.email = e
PostExists(post_id) == \E p \in posts : p.id = post_id
\* the stored hash is the hash of this password under the stored salt
Matches(u, password) ==
    u.password = generate_password_hash(password, u.password.salt)

\* C1: a create, edit or delete request of a caller who is anonymous or is
\* logged in as a user other than user 1 is answered 403 and leaves the three
\* tables as they were.
C1_NonAdminForbidden ==
    [][\A c \in Clients, id \in PostIds, f \in PostForms, v \in BOOLEAN :
         (/\ session[c] # AdminId
          /\ (AddNewPost(c, f, v) \/ EditPost(c, id, f, v) \/ DeletePost(c, id)))
         => (resp'.status = 403 /\ UNCHANGED tables)]_vars

\* C2: a login of an anonymous caller with an email no row has, or with a
\* password that is not the one the row's hash was made from, leaves every
\* session and every table as it was, and both cases get the same response.
C2_BadLoginStaysAnonymous ==
    [][\A c \in Clients, e \in Emails, p \in Passwords, v \in BOOLEAN :
         (/\ session[c] = Anon
          /\ \A u \in users : u.email = e => ~Matches(u, p)
          /\ Login(c, e, p, v))
         => /\ session' = session
            /\ UNCHANGED tables
            /\ v => resp' = Render(c, "login.html",
                                   "... Can't log you in sorry babes.", 156, {})]_vars

C2_Witness ==
    /\ resp.line = 156
    /\ resp.flash # ""
    /\ session[resp.client] = Anon
    /\ \A e \in Emails : EmailTaken(e)

\* C3: a valid registration by an anonymous caller with an email no row has
\* adds exactly one User row with that name and email and an identifier no
\* row had, logs the caller in as that user, and changes nothing else.
C3_RegisterCreatesOneUser ==
    [][\A c \in Clients, n \in Names, e \in Emails, p \in RegPasswords :
         (/\ session[c] = Anon
          /\ ~EmailTaken(e)
          /\ Register(c, n, e, p, TRUE))
         => /\ \E u \in users' :
                 /\ u \notin users
                 /\ users' = users \cup {u}
                 /\ u.name = n
                 /\ u.email = e
                 /\ \A w \in users : w.id # u.id
                 /\ session' = [session EXCEPT ![c] = u.id]
            /\ UNCHANGED <<posts, comments>>]_vars

C3_Witness ==
    /\ resp.line = 131
    /\ Cardinality(users) = 2
    /\ \E u \in users :
         /\ u.id = session[resp.client]
         /\ u.id # AdminId
         /\ \A w \in users \ {u} : w.id # u.id /\ w.email # u.email

\* C4 as stated: every registration attempt with an email some row has
\* creates no row, logs nobody in and is redirected to /login with a notice.
C4_Original ==
    [][\A c \in Clients, n \in Names, e \in Emails, p \in RegPasswords :
         (EmailTaken(e) /\ Register(c, n, e, p, TRUE))
         => /\ users' = users
            /\ session' = session
            /\ resp'.status = 302
            /\ resp'.target = "login"
            /\ resp'.flash # ""]_vars

\* C4 amended: a valid registration submitted by a caller who is not logged
\* in, with an email some row has, creates no row, logs nobody in and is
\* redirected to /login with a notice.
C4_DuplicateEmailRedirects ==
    [][\A c \in Clients, n \in Names, e \in Emails, p \in RegPasswords :
         (session[c] = Anon /\ EmailTaken(e) /\ Register(c, n, e, p, TRUE))
         => /\ UNCHANGED tables
            /\ session' = session
            /\ resp'.status = 302
            /\ resp'.target = "login"
            /\ resp'.flash # ""]_vars

C4_Witness ==
    /\ resp.line = 117
    /\ resp.target = "login"
    /\ session[resp.client] = Anon
    /\ users # {}

\* C5: a valid comment on an existing post by an anonymous caller creates no
\* row and redirects to /login; by a logged-in caller it creates exactly one
\* row with the caller as author and the post as post, and a render of the
\* post lists exactly the rows that reference it, the new one included.
C5_CommentFlow ==
    [][\A c \in Clients, id \in PostIds, t \in CommentTexts :
         /\ (PostExists(id) /\ ShowPost(c, id, t, TRUE))
            => IF session[c] = Anon
               THEN /\ UNCHANGED tables
                    /\ resp'.status = 302
                    /\ resp'.target = "login"
               ELSE /\ \E k \in comments' :
                         /\ k \notin comments
                         /\ comments' = comments \cup {k}
                         /\ \A w \in comments : w.id # k.id
                         /\ k.author_id = session[c]
                         /\ k.blogpost_id = id
                         /\ k.comment_text = t
                    /\ UNCHANGED <<users, posts>>
                    /\ resp'.status = 302
                    /\ resp'.target = "show_post"
                    /\ resp'.post_id = id
         /\ (PostExists(id) /\ ShowPost(c, id, t, FALSE))
            => /\ resp'.status = 200
               /\ resp'.body = {k \in comments : k.blogpost_id = id}]_vars

C5_Witness ==
    /\ resp.line = 193
    /\ \E k \in comments :
         /\ k.author_id = session[resp.client]
         /\ k.blogpost_id = resp.post_id
         /\ PostExists(k.blogpost_id)

\* C6: a delete by the administrator of an id no post has answers 404 and
\* leaves blog_posts as it was; of an id a post has, it removes that one row
\* and leaves every other row as it was.
C6_DeleteRemovesExactlyThatPost ==
    [][\A c \in Clients, id \in PostIds :
         (session[c] = AdminId /\ DeletePost(c, id))
         => IF PostExists(id)
            THEN /\ posts' = {p \in posts : p.id # id}
                 /\ Cardinality(posts') = Cardinality(posts) - 1
            ELSE /\ resp'.status = 404
                 /\ posts' = posts]_vars

C6_Witness ==
    /\ resp.line = 250
    /\ session[resp.client] = AdminId
    /\ posts # {}

\* C7: a valid edit by the administrator of an existing post redirects to the
\* post's view and leaves the post with the submitted title, subtitle, image
\* URL and body, its id, date and author_id as they were, and nothing else
\* changed.
C7_EditOverwritesFields ==
    [][\A c \in Clients, id \in PostIds, f \in PostForms :
         (session[c] = AdminId /\ PostExists(id) /\ EditPost(c, id, f, TRUE))
         => /\ resp'.status = 302
            /\ resp'.target = "show_post"
            /\ resp'.post_id = id
            /\ LET old == CHOOSE p \in posts : p.id = id
               IN posts' = (posts \ {old}) \cup
                     {[old EXCEPT !.title = f.title, !.subtitle = f.subtitle,
                                  !.img_url = f.img_url, !.body = f.body]}
            /\ UNCHANGED <<users, comments>>]_vars

\* C8: logout of a logged-in caller ends the session and redirects to the
\* post list; logout of an anonymous caller redirects to the login page,
\* creates no session and changes no row.
C8_Logout ==
    [][\A c \in Clients :
         Logout(c)
         => /\ UNCHANGED tables
            /\ IF session[c] # Anon
               THEN /\ session' = [session EXCEPT ![c] = Anon]
                    /\ resp'.status = 302
                    /\ resp'.target = "get_all_posts"
               ELSE /\ session' = session
                    /\ resp'.status = 302
                    /\ resp'.target = "login"]_vars

\* C9: with registrations interleaving between lookup and commit, no two
\* User rows ever share an email, and a commit whose email a row already has
\* fails hard: it adds no row and logs nobody in.
C9_EmailStaysUnique ==
    [][/\ \A u \in users', w \in users' : u.email = w.email => u = w
       /\ \A c \in Clients :
            (RegisterCommit(c) /\ EmailTaken(pending[c].email))
            => /\ users' = users
               /\ session' = session
               /\ resp'.status = 500]_vars

C9_Witness ==
    /\ resp.line = 129
    /\ resp.status = 500
    /\ session[resp.client] = Anon
    /\ users # {}

\* C10: every Comment row references an existing User row and an existing
\* BlogPost row, also after a post that has comments was deleted.
C10_CommentReferencesResolve ==
    \A k \in comments :
      /\ \E u \in users : u.id = k.author_id
      /\ \E p \in posts : p.id = k.blogpost_id
====
